---- MODULE Spec2Model ----
(***************************************************************************)
(* Model of type-picker (src/src/picker.ts, src/src/cli.ts): the query     *)
(* resolver, the node locator, the flag-name resolver, the property        *)
(* collector, the snippet condenser, the output filters, the command-line  *)
(* query builder, the signature collector and pickType as a whole.         *)
(*                                                                         *)
(* Offsets are zero-based as in the source; TLA+ sequences are one-based,  *)
(* so the character at offset p of a text t is t[p + 1].                   *)
(***************************************************************************)
EXTENDS Integers, Sequences, FiniteSets, TLC

VARIABLES
    \* resolvePosition (picker.ts 258-302)
    text,        \* sourceFile.getFullText()
    query,       \* the TypeQuery
    pc,          \* position of the call: "call", "exec", "returned", "thrown"
    flags,       \* flags handed to new RegExp
    lastIndex,   \* matcher.lastIndex
    index,       \* the loop counter `index`
    resolution,  \* the QueryResolution returned
    err,         \* the error thrown
    message,     \* the message of the error thrown
    \* findClosestNode (picker.ts 304-319)
    tree, position, bestNode,
    \* collectFlagNames (picker.ts 329-344)
    flagEnum, flagBits, names,
    \* collectProperties (picker.ts 377-432)
    ptype, properties,
    \* condenseSnippet (picker.ts 477-483)
    rawSnippet, snippet,
    \* applyOutputFilters (cli.ts 132-153)
    result, values, transformed,
    \* buildQuery (cli.ts 82-130)
    options, built, buildErr,
    \* collectSignatures (picker.ts 350-375)
    sigType, signatures,
    \* pickType (picker.ts 102-178)
    targetFile,  \* the target file as fs.existsSync and the program see it
    project,     \* the project pointer and the configuration it leads to
    stage,       \* position of the call: "call", "returned", "thrown"
    evaluated,   \* the steps of pickType evaluated so far, in order
    record,      \* the TypeInfo returned
    pickErr,     \* the error thrown
    \* which operation has run: "init" before, the function's name after
    done

resolveVars == <<text, query, pc, flags, lastIndex, index, resolution, err, message>>
locateVars  == <<tree, position, bestNode>>
flagVars    == <<flagEnum, flagBits, names>>
propVars    == <<ptype, properties>>
snippetVars == <<rawSnippet, snippet>>
filterVars  == <<result, values, transformed>>
buildVars   == <<options, built, buildErr>>
sigVars     == <<sigType, signatures>>
pickVars    == <<targetFile, project, stage, evaluated, record, pickErr>>
vars == <<resolveVars, locateVars, flagVars, propVars, snippetVars, filterVars,
          buildVars, sigVars, pickVars, done>>

-----------------------------------------------------------------------------
(* Bounds *)
MaxLen == 3          \* longest source text of the resolver
MaxMatchIndex == 2   \* largest --index
MaxLine == 3         \* largest line of a position query
MaxColumn == 4       \* largest column of a position query
MaxIter == 4         \* cap of the loop counter `index`
MaxNodes == 4        \* most nodes of a syntax tree
MaxEnd == 3          \* longest source text of the node locator
MaxConstants == 2    \* most entries of an enumeration table
MaxValue == 3        \* largest value of an enumeration constant
MaxMembers == 3      \* most constituents of a queried type
MaxBody == 4         \* characters of a declaration text after its padding
MaxExtra == 2        \* padding of a declaration text beyond the maximum length
MaxList == 2         \* longest list of a result record
MaxArg == 2          \* largest numeral given to --line, --column or --index
MaxSignatures == 7   \* most signatures of one kind that a type declares
MaxWide == 27        \* most properties of a wide object type
MaxPickLen == 2      \* longest source text of a whole pickType call
MaxPickNodes == 3    \* most nodes of its syntax tree

-----------------------------------------------------------------------------
(* Generic helpers *)
Min(a, b) == IF a < b THEN a ELSE b

\* t.slice(from, to) on zero-based offsets, clamped as String.prototype.slice
Slice(t, from, to) ==
    LET f == Min(from, Len(t))
        e == Min(to, Len(t))
    IN  IF e <= f THEN <<>> ELSE SubSeq(t, f + 1, e)

\* all sequences over S of length at most n
SeqsUpTo(S, n) == UNION {[1..k -> S] : k \in 0..n}

\* an optional value: <<>> is undefined, <<v>> is v
Undefined == <<>>
Some(v) == <<v>>

-----------------------------------------------------------------------------
(* The oracle's line map (ts.SourceFile): line starts, offset <-> line/char *)
LF == "\n"
CR == "\r"

\* a line starts at offset 0 and after each line break; CR LF is one break
IsLineStart(t, p) ==
    \/ p = 0
    \/ /\ p >= 1 /\ p <= Len(t)
       /\ \/ t[p] = LF
          \/ t[p] = CR /\ (p = Len(t) \/ t[p + 1] # LF)

LineStartSet(t) == {p \in 0..Len(t) : IsLineStart(t, p)}

\* lineStarts[line] for a zero-based line: the (line+1)-th smallest start
LineStart(t, line) ==
    CHOOSE p \in LineStartSet(t) :
        Cardinality({q \in LineStartSet(t) : q < p}) = line

LineCount(t) == Cardinality(LineStartSet(t))

\* sourceFile.getLineAndCharacterOfPosition(pos): zero-based line, character
getLineAndCharacterOfPosition(t, pos) ==
    LET line == Cardinality({q \in LineStartSet(t) : q <= pos}) - 1
    IN  [line |-> line, character |-> pos - LineStart(t, line)]

\* sourceFile.getPositionOfLineAndCharacter(line, character) without
\* allowEdits: a line or character outside the line map is a Debug failure
PositionInBounds(t, line, character) ==
    /\ line >= 0 /\ line < LineCount(t)
    /\ IF line < LineCount(t) - 1
          THEN LineStart(t, line) + character < LineStart(t, line + 1)
          ELSE LineStart(t, line) + character <= Len(t)

getPositionOfLineAndCharacter(t, line, character) ==
    LineStart(t, line) + character

-----------------------------------------------------------------------------
(* RegExp: the patterns of the model and RegExp.prototype.exec *)
Lit(s)  == [kind |-> "lit",  chars |-> s]    \* the literal text s
Star(c) == [kind |-> "star", chars |-> <<c>>] \* c*  (greedy, may match empty)

\* length of the match of pattern p at offset at, or -1
MatchLen(p, t, at) ==
    IF p.kind = "lit"
    THEN IF at + Len(p.chars) <= Len(t) /\ Slice(t, at, at + Len(p.chars)) = p.chars
         THEN Len(p.chars) ELSE -1
    ELSE LET run == {n \in 0..(Len(t) - at) :
                        \A i \in 1..n : t[at + i] = p.chars[1]}
         IN  CHOOSE n \in run : \A m \in run : m <= n

NoMatch == [found |-> FALSE, index |-> 0, length |-> 0]

\* the leftmost match at or after offset from (at offset from exactly when
\* sticky), as RegExpBuiltinExec finds it
FindMatch(p, t, from, sticky) ==
    LET cands == IF sticky THEN {from} \cap 0..Len(t) ELSE from..Len(t)
        hits == {at \in cands : MatchLen(p, t, at) >= 0}
    IN  IF hits = {} THEN NoMatch
        ELSE LET at == CHOOSE a \in hits : \A b \in hits : a <= b
             IN  [found |-> TRUE, index |-> at, length |-> MatchLen(p, t, at)]

HasFlag(f, c) == \E i \in 1..Len(f) : f[i] = c

\* matcher.exec(text) with matcher.lastIndex = li: the match and the new
\* lastIndex (the end of the match; 0 after a failure)
Exec(p, f, t, li) ==
    LET useLast == HasFlag(f, "g") \/ HasFlag(f, "y")
        from == IF useLast THEN li ELSE 0
        m == IF from > Len(t) THEN NoMatch ELSE FindMatch(p, t, from, HasFlag(f, "y"))
    IN  [match |-> m,
         lastIndex |-> IF ~m.found THEN 0
                       ELSE IF useLast THEN m.index + m.length ELSE li]

includeGlobalFlag(f) == IF HasFlag(f, "g") THEN f ELSE f \o <<"g">>

isRegexQuery(q) == q.regex # Undefined

-----------------------------------------------------------------------------
(* Idle values: the state of a component that a specification does not run *)
NoResolution == [position |-> -1, line |-> 0, column |-> 0, matchedText |-> <<>>]
NoQuery == [regex |-> Undefined, regexFlags |-> Undefined, matchIndex |-> Undefined,
            line |-> 0, column |-> 0]

\* no error thrown: a message with no text and no interpolated value
NoMessage == [template |-> "", regex |-> Undefined, matchIndex |-> Undefined,
              fileName |-> Undefined, line |-> Undefined, column |-> Undefined]

IdleResolve ==
    /\ text = <<>> /\ query = NoQuery /\ pc = "idle" /\ flags = <<>>
    /\ lastIndex = 0 /\ index = 0 /\ resolution = NoResolution /\ err = "none"
    /\ message = NoMessage
IdleLocate == tree = <<>> /\ position = 0 /\ bestNode = 0
IdleFlags == flagEnum = <<>> /\ flagBits = 0 /\ names = <<>>
IdleProps == ptype = <<>> /\ properties = <<>>
IdleSnippet == rawSnippet = <<>> /\ snippet = <<>>
IdleFilter == result = <<>> /\ values = <<>> /\ transformed = <<>>
IdleBuild == options = <<>> /\ built = <<>> /\ buildErr = "none"
IdleSigs == sigType = <<>> /\ signatures = <<>>
IdlePick ==
    /\ targetFile = "unread" /\ project = "unread" /\ stage = "idle"
    /\ evaluated = <<>> /\ record = <<>> /\ pickErr = "none"

-----------------------------------------------------------------------------
(* resolvePosition *)
Alphabet == {"a", "b", LF, CR}
Texts == SeqsUpTo(Alphabet, MaxLen)
Patterns == {Lit(<<"a">>), Lit(<<"a", "a">>), Lit(<<"b">>), Star("a")}
FlagStrings == {<<>>, <<"g">>, <<"y">>}

\* a pattern query as buildQuery or a library caller makes it; line and
\* column are absent from it (0 stands for the absent fields)
RegexQueries ==
    [regex : {Some(p) : p \in Patterns},
     regexFlags : {Undefined} \cup {Some(f) : f \in FlagStrings},
     matchIndex : {Undefined} \cup {Some(k) : k \in -1..MaxMatchIndex},
     line : {0}, column : {0}]

PositionQueries ==
    [regex : {Undefined}, regexFlags : {Undefined}, matchIndex : {Undefined},
     line : 0..MaxLine, column : 0..MaxColumn]

\* const { regex, regexFlags, matchIndex = 0 } = query
QueryRegex(q) == q.regex[1]
QueryFlags(q) == IF q.regexFlags = Undefined THEN <<>> ELSE q.regexFlags[1]
QueryMatchIndex(q) == IF q.matchIndex = Undefined THEN 0 ELSE q.matchIndex[1]

\* a slip in the conversion to the zero-based character: column, not column - 1
PositionResolution_ColumnNotShifted(t, q) ==
    [position |-> getPositionOfLineAndCharacter(t, q.line - 1, q.column),
     line |-> q.line,
     column |-> q.column,
     matchedText |-> <<>>]

\* picker.ts 294-301: the location of a position query
PositionResolution(t, q) ==
    [position |-> getPositionOfLineAndCharacter(t, q.line - 1, q.column - 1),
     line |-> q.line,
     column |-> q.column,
     matchedText |-> <<>>]

\* sourceFile.fileName, interpolated into the message of picker.ts 284-286
FileName == "file.ts"

\* picker.ts 291: new Error("Line and column must be 1-based and positive"),
\* a fixed text with nothing interpolated
LineColumnMessage(q) ==
    [NoMessage EXCEPT !.template = "Line and column must be 1-based and positive"]

\* picker.ts 284-286: `Regex "${regex}" did not match index ${matchIndex} in
\* ${sourceFile.fileName}`, matchIndex being the defaulted value
NoMatchMessage(q) ==
    [NoMessage EXCEPT !.template = "Regex \"${regex}\" did not match index ${matchIndex} in ${fileName}",
                      !.regex = Some(QueryRegex(q)),
                      !.matchIndex = Some(QueryMatchIndex(q)),
                      !.fileName = Some(FileName)]

\* the assertion failure of the line map, raised inside
\* sourceFile.getPositionOfLineAndCharacter (picker.ts 294)
DebugFailureMessage == [NoMessage EXCEPT !.template = "Debug Failure."]

\* picker.ts 289-302: the position branch
ResolvePositionQuery ==
    /\ pc = "call"
    /\ ~isRegexQuery(query)
    /\ IF query.line <= 0 \/ query.column <= 0
       THEN /\ pc' = "thrown"
            /\ err' = "LineColumnNotPositive"
            /\ message' = LineColumnMessage(query)
            /\ resolution' = resolution
       ELSE IF ~PositionInBounds(text, query.line - 1, query.column - 1)
       THEN /\ pc' = "thrown"
            /\ err' = "DebugFailure"
            /\ message' = DebugFailureMessage
            /\ resolution' = resolution
       ELSE /\ pc' = "returned"
            /\ err' = err
            /\ message' = message
            /\ resolution' = PositionResolution(text, query)
    /\ done' = "resolvePosition"
    /\ UNCHANGED <<text, query, flags, lastIndex, index>>

\* picker.ts 259-265: the pattern branch up to the loop
ResolveRegexBegin ==
    /\ pc = "call"
    /\ isRegexQuery(query)
    /\ flags' = includeGlobalFlag(QueryFlags(query))
    /\ lastIndex' = 0
    /\ index' = 0
    /\ pc' = "exec"
    /\ UNCHANGED <<text, query, resolution, err, message, done>>

\* the location returned for a match (picker.ts 269-276)
MatchResolution(t, m) ==
    LET lc == getLineAndCharacterOfPosition(t, m.index)
    IN  [position |-> m.index,
         line |-> lc.line + 1,
         column |-> lc.character + 1,
         matchedText |-> Slice(t, m.index, m.index + m.length)]

\* picker.ts 267-286: one iteration of the loop, or the throw after it
ResolveRegexExec ==
    /\ pc = "exec"
    /\ index < MaxIter
    /\ LET r == Exec(QueryRegex(query), flags, text, lastIndex)
       IN  /\ lastIndex' = r.lastIndex
           /\ IF ~r.match.found
              THEN /\ pc' = "thrown" /\ err' = "RegexNoMatch"
                   /\ message' = NoMatchMessage(query)
                   /\ done' = "resolvePosition"
                   /\ UNCHANGED <<index, resolution>>
              ELSE IF index = QueryMatchIndex(query)
              THEN /\ pc' = "returned"
                   /\ resolution' = MatchResolution(text, r.match)
                   /\ done' = "resolvePosition"
                   /\ UNCHANGED <<index, err, message>>
              ELSE /\ index' = index + 1
                   /\ IF ~HasFlag(flags, "g")
                      THEN /\ pc' = "thrown" /\ err' = "RegexNoMatch"
                           /\ message' = NoMatchMessage(query)
                           /\ done' = "resolvePosition"
                      ELSE UNCHANGED <<pc, err, message, done>>
                   /\ UNCHANGED resolution
    /\ UNCHANGED <<text, query, flags>>

\* the errors of resolvePosition that the taxonomy calls InvalidQuery
InvalidQuery == {"LineColumnNotPositive", "RegexNoMatch"}

InitResolve ==
    /\ text \in Texts
    /\ query \in RegexQueries \cup PositionQueries
    /\ pc = "call"
    /\ flags = <<>> /\ lastIndex = 0 /\ index = 0
    /\ resolution = NoResolution /\ err = "none" /\ message = NoMessage
    /\ IdleLocate /\ IdleFlags /\ IdleProps /\ IdleSnippet /\ IdleFilter
    /\ IdleBuild /\ IdleSigs /\ IdlePick
    /\ done = "init"

NextResolve ==
    /\ \/ ResolvePositionQuery
       \/ ResolveRegexBegin
       \/ ResolveRegexExec
    /\ UNCHANGED <<locateVars, flagVars, propVars, snippetVars, filterVars,
                    buildVars, sigVars, pickVars>>

SpecResolve == InitResolve /\ [][NextResolve]_vars

-----------------------------------------------------------------------------
(* Reference notions for the claims about resolvePosition *)

\* the non-overlapping matches of p scanning t left to right from offset
\* from; after an empty match the scan moves on by one character
RECURSIVE ScanMatches(_, _, _)
ScanMatches(p, t, from) ==
    IF from > Len(t) THEN <<>>
    ELSE LET m == FindMatch(p, t, from, FALSE)
         IN  IF ~m.found THEN <<>>
             ELSE <<m>> \o ScanMatches(p, t, IF m.length = 0 THEN m.index + 1
                                             ELSE m.index + m.length)

AllMatches(p, t) == ScanMatches(p, t, 0)

\* 1-based line and column of an offset, counted from the line breaks
LineOf(t, off) == 1 + Cardinality({p \in 1..off : IsLineStart(t, p)})
ColumnOf(t, off) ==
    LET starts == {p \in 0..off : IsLineStart(t, p)}
    IN  1 + off - (CHOOSE p \in starts : \A q \in starts : q <= p)

Finished == pc \in {"returned", "thrown"}
RegexCall == isRegexQuery(query) /\ QueryMatchIndex(query) >= 0

\* C1: a pattern query that succeeds returns the start of the (k+1)-th
\* non-overlapping match of the left-to-right scan from offset 0, and the
\* 1-based line and column of that offset.
C1_KthMatchOffset ==
    (pc = "returned" /\ RegexCall) =>
        LET ms == AllMatches(QueryRegex(query), text)
            k == QueryMatchIndex(query)
        IN  /\ k + 1 <= Len(ms)
            /\ resolution.position = ms[k + 1].index
            /\ resolution.line = LineOf(text, resolution.position)
            /\ resolution.column = ColumnOf(text, resolution.position)

\* C2: a pattern query whose pattern has fewer than index + 1 matches in
\* the full text fails with InvalidQuery and returns no location.
C2_BeyondLastMatchFails ==
    (Finished /\ RegexCall
       /\ Len(AllMatches(QueryRegex(query), text)) < QueryMatchIndex(query) + 1) =>
        /\ pc = "thrown"
        /\ err \in InvalidQuery
        /\ resolution = NoResolution

\* the offsets of the file that a 1-based (line, column) denotes
OffsetsAt(t, line, column) ==
    {o \in 0..Len(t) : LineOf(t, o) = line /\ ColumnOf(t, o) = column}

\* C8: a position query whose line and column lie within the file returns
\* an offset that the offset-to-line/character mapping takes back to the
\* queried (line, column), and reports the queried line and column.
C8_PositionRoundTrip ==
    (Finished /\ ~isRegexQuery(query)
       /\ OffsetsAt(text, query.line, query.column) # {}) =>
        /\ pc = "returned"
        /\ LET lc == getLineAndCharacterOfPosition(text, resolution.position)
           IN  /\ lc.line + 1 = query.line
               /\ lc.character + 1 = query.column
        /\ resolution.position \in OffsetsAt(text, query.line, query.column)
        /\ resolution.line = query.line
        /\ resolution.column = query.column

\* a position query on the second or a later line, past its first column
C8_Witness ==
    /\ pc = "returned" /\ ~isRegexQuery(query)
    /\ query.line >= 2 /\ query.column >= 2
    /\ resolution.position = Len(text) - 1

-----------------------------------------------------------------------------
(* findClosestNode *)

\* A syntax tree is the sequence of its nodes in depth-first order, the
\* root (the source file) first.  A node has its depth, getFullStart()
\* (leading trivia included), getStart() and getEnd().
Node(d, fs, st, e) == [depth |-> d, fullStart |-> fs, start |-> st, end |-> e]

Parent(t, n) ==
    LET up == {j \in 1..(n - 1) : t[j].depth = t[n].depth - 1}
    IN  CHOOSE j \in up : \A i \in up : i <= j

IsChild(t, n, c) == c > n /\ c <= Len(t) /\ t[c].depth = t[n].depth + 1 /\ Parent(t, c) = n

\* the children of n in source order, as forEachChild hands them over
RECURSIVE SortedSeq(_)
SortedSeq(S) ==
    IF S = {} THEN <<>>
    ELSE LET m == CHOOSE x \in S : \A y \in S : x <= y
         IN  <<m>> \o SortedSeq(S \ {m})

Children(t, n) == SortedSeq({c \in 1..Len(t) : IsChild(t, n, c)})

\* the nodes that can follow the tree t in depth-first order: a child of a
\* node on the rightmost path, with text of its own, inside its parent and
\* after its previous sibling.  A first child either begins with its
\* parent's first token (same full start and start) or follows that token;
\* the source file has no token of its own and its statements are adjacent.
NextNodes(t) ==
    LET last == Len(t)
    IN  {n \in {Node(d, fs, st, e) : d \in 1..(t[last].depth + 1),
                                     fs \in 0..MaxEnd, st \in 0..MaxEnd, e \in 1..MaxEnd} :
           LET up == {j \in 1..last : t[j].depth = n.depth - 1}
               par == CHOOSE j \in up : \A i \in up : i <= j
               sibs == {j \in (par + 1)..last : t[j].depth = n.depth}
           IN  /\ n.fullStart <= n.start /\ n.start < n.end
               /\ n.end <= t[par].end
               /\ IF sibs = {}
                  THEN \/ n.fullStart = t[par].fullStart /\ n.start = t[par].start
                       \/ par # 1 /\ n.fullStart > t[par].start
                  ELSE LET prev == CHOOSE j \in sibs : \A i \in sibs : i <= j
                       IN  IF par = 1 THEN n.fullStart = t[prev].end
                           ELSE n.fullStart >= t[prev].end}

\* the source file and its first k - 1 nodes
RECURSIVE TreesOfSize(_)
TreesOfSize(k) ==
    IF k = 1
    THEN {r \in {<<Node(0, 0, st, e)>> : st \in 0..MaxEnd, e \in 0..MaxEnd} :
             r[1].start <= r[1].end}
    ELSE UNION {{Append(t, n) : n \in NextNodes(t)} : t \in TreesOfSize(k - 1)}

\* the end-of-file token closes the source file: it has no text, and its
\* leading trivia runs from the end of the last statement
EndOfFileToken(t) ==
    LET stmts == {j \in 2..Len(t) : t[j].depth = 1}
    IN  Node(1,
             IF stmts = {} THEN 0
             ELSE t[CHOOSE j \in stmts : \A i \in stmts : i <= j].end,
             t[1].end, t[1].end)

\* a source file starts where its first child starts
Trees ==
    {t \in {Append(b, EndOfFileToken(b)) :
               b \in UNION {TreesOfSize(k) : k \in 1..MaxNodes}} :
        t[1].start = t[2].start}

RECURSIVE visit(_, _, _, _), forEachChild(_, _, _, _)

\* node.forEachChild(visit): the children in order, each from the best so far
forEachChild(t, pos, kids, best) ==
    IF kids = <<>> THEN best
    ELSE forEachChild(t, pos, Tail(kids), visit(t, pos, Head(kids), best))

\* a slip in the pruning test: the end of a node taken as exclusive
visit_ExclusiveEnd(t, pos, n, best) ==
    IF pos < t[n].fullStart \/ pos >= t[n].end
    THEN best
    ELSE forEachChild(t, pos, Children(t, n),
                      IF pos >= t[n].start /\ pos <= t[n].end THEN n ELSE best)

\* picker.ts 307-315: visit(node), with bestNode threaded through
visit(t, pos, n, best) ==
    IF pos < t[n].fullStart \/ pos > t[n].end
    THEN best
    ELSE forEachChild(t, pos, Children(t, n),
                      IF pos >= t[n].start /\ pos <= t[n].end THEN n ELSE best)

\* picker.ts 304-319: bestNode starts as the source file
findClosestNode(t, pos) == visit(t, pos, 1, 1)

FindClosestNode ==
    /\ done = "init"
    /\ bestNode' = findClosestNode(tree, position)
    /\ done' = "findClosestNode"
    /\ UNCHANGED <<tree, position>>

InitLocate ==
    /\ tree \in Trees
    /\ position \in 0..tree[1].end
    /\ bestNode = 0
    /\ IdleResolve /\ IdleFlags /\ IdleProps /\ IdleSnippet /\ IdleFilter
    /\ IdleBuild /\ IdleSigs /\ IdlePick
    /\ done = "init"

NextLocate ==
    /\ FindClosestNode
    /\ UNCHANGED <<resolveVars, flagVars, propVars, snippetVars, filterVars,
                    buildVars, sigVars, pickVars>>

SpecLocate == InitLocate /\ [][NextLocate]_vars

\* the spans of a node: from getStart(), and from getFullStart()
InSpan(t, n, pos) == t[n].start <= pos /\ pos <= t[n].end
InFullSpan(t, n, pos) == t[n].fullStart <= pos /\ pos <= t[n].end

Located == done = "findClosestNode"

\* C9: findClosestNode returns the deepest node whose span contains the
\* offset: no node whose span contains the offset lies at a strictly
\* greater depth than the returned node.
C9_DeepestContaining ==
    Located =>
        \A n \in 1..Len(tree) :
            InSpan(tree, n, position) => tree[n].depth <= tree[bestNode].depth

\* C10 as stated: the returned node has no child whose span, leading
\* trivia included, contains the offset; the root is returned when no node
\* below it contains the offset.
C10_NoContainingChildFullSpan ==
    Located =>
        /\ \A c \in 1..Len(tree) :
               IsChild(tree, bestNode, c) => ~InFullSpan(tree, c, position)
        /\ (\A n \in 2..Len(tree) : ~InFullSpan(tree, n, position)) => bestNode = 1

\* C10 amended: the returned node has no child whose span from getStart()
\* (leading trivia excluded) to its inclusive end contains the offset; the
\* root is returned when no node below it has such a span.
C10_NoContainingChild ==
    Located =>
        /\ \A c \in 1..Len(tree) :
               IsChild(tree, bestNode, c) => ~InSpan(tree, c, position)
        /\ (\A n \in 2..Len(tree) : ~InSpan(tree, n, position)) => bestNode = 1

\* the locator descended two levels to a node that ends at the offset,
\* past an ancestor's child whose leading trivia holds the offset
C10_Witness ==
    /\ Located
    /\ tree[bestNode].depth >= 2
    /\ tree[bestNode].end = position
    /\ \E c \in 1..Len(tree) :
           /\ InFullSpan(tree, c, position) /\ ~InSpan(tree, c, position)

-----------------------------------------------------------------------------
(* collectFlagNames *)

\* JavaScript's & on 32-bit integers in two's complement: \div rounds down
\* and % is never negative, so v % 2 is the lowest bit of v and v \div 2
\* the bits above it, for negative v too.  The low 31 bits:
RECURSIVE BitAndLow(_, _, _)
BitAndLow(a, b, bits) ==
    IF bits = 0 THEN 0
    ELSE (a % 2) * (b % 2) + 2 * BitAndLow(a \div 2, b \div 2, bits - 1)

Pow2(k) == 2 ^ k

\* the sign bit is set when both operands are negative
BitAnd(a, b) ==
    IF a < 0 /\ b < 0
    THEN (BitAndLow(a, b, 31) - Pow2(30)) - Pow2(30)
    ELSE BitAndLow(a, b, 31)

\* a slip: any nonzero value taken for a single bit
isSingleBit_AnyNonZero(value) == value # 0

\* picker.ts 346-348
isSingleBit(value) == value # 0 /\ BitAnd(value, value - 1) = 0

\* An enumeration table is the sequence of Object.entries(flagEnum): the name
\* of each entry and its value, a number or (for the reverse mapping of a
\* TypeScript enum) not a number.  The names of the model, in the order
\* that Array.prototype.sort gives them:
FlagNameOrder == <<"Any", "Boolean", "Conditional", "Index">>
ConstantNames == {FlagNameOrder[i] : i \in 1..(MaxConstants + 1)}

\* the property names of the model, in the same order
PropNameOrder == <<"email", "id">>
PropNames == {PropNameOrder[i] : i \in 1..Len(PropNameOrder)}

\* the default order of Array.prototype.sort: by UTF-16 code units
\* the property names of a wide object type, in the order of Array.sort
WideNameOrder ==
    <<"p01", "p02", "p03", "p04", "p05", "p06", "p07", "p08",
      "p09", "p10", "p11", "p12", "p13", "p14", "p15", "p16",
      "p17", "p18", "p19", "p20", "p21", "p22", "p23", "p24",
      "p25", "p26", "p27", "p28", "p29", "p30">>
NameOrder == FlagNameOrder \o PropNameOrder \o WideNameOrder
Rank(name) == CHOOSE i \in 1..Len(NameOrder) : NameOrder[i] = name

\* a value that is not a number carries no number (0 stands for it)
Entries ==
    {e \in [name : ConstantNames, isNumber : BOOLEAN, value : -1..MaxValue] :
        ~e.isNumber => e.value = 0}

\* object keys are distinct
RECURSIVE TablesOfSize(_)
TablesOfSize(k) ==
    IF k = 0 THEN {<<>>}
    ELSE UNION {{Append(t, e) : e \in {x \in Entries :
                                          \A i \in 1..Len(t) : t[i].name # x.name}} :
                   t \in TablesOfSize(k - 1)}

EnumTables == UNION {TablesOfSize(k) : k \in 0..MaxConstants}

\* the bitmasks of the model: every bit of a constant, alone or with others
FlagMasks == 0..(2 * MaxValue + 1)

\* names.add(name): a Set keeps the order of first insertion
SetAdd(seq, x) == IF \E i \in 1..Len(seq) : seq[i] = x THEN seq ELSE Append(seq, x)

\* picker.ts 331-342: the loop over the entries
RECURSIVE collectLoop(_, _, _)
collectLoop(entries, bits, acc) ==
    IF entries = <<>> THEN acc
    ELSE LET e == Head(entries)
         IN  collectLoop(Tail(entries), bits,
                 IF ~e.isNumber THEN acc
                 ELSE IF ~isSingleBit(e.value) THEN acc
                 ELSE IF BitAnd(bits, e.value) = 0 THEN acc
                 ELSE SetAdd(acc, e.name))

\* Array.from(names).sort()
RECURSIVE SortNames(_)
SortNames(seq) ==
    IF seq = <<>> THEN <<>>
    ELSE LET i == CHOOSE a \in 1..Len(seq) :
                      \A b \in 1..Len(seq) : Rank(seq[a]) <= Rank(seq[b])
         IN  <<seq[i]>> \o SortNames(SubSeq(seq, 1, i - 1) \o SubSeq(seq, i + 1, Len(seq)))

\* picker.ts 329-344
collectFlagNames(table, bits) == SortNames(collectLoop(table, bits, <<>>))

CollectFlagNames ==
    /\ done = "init"
    /\ names' = collectFlagNames(flagEnum, flagBits)
    /\ done' = "collectFlagNames"
    /\ UNCHANGED <<flagEnum, flagBits>>

InitFlags ==
    /\ flagEnum \in EnumTables
    /\ flagBits \in FlagMasks
    /\ names = <<>>
    /\ IdleResolve /\ IdleLocate /\ IdleProps /\ IdleSnippet /\ IdleFilter
    /\ IdleBuild /\ IdleSigs /\ IdlePick
    /\ done = "init"

NextFlags ==
    /\ CollectFlagNames
    /\ UNCHANGED <<resolveVars, locateVars, propVars, snippetVars, filterVars,
                    buildVars, sigVars, pickVars>>

SpecFlags == InitFlags /\ [][NextFlags]_vars

\* reference notions: a nonzero power of two, and its bit in a bitmask
IsPowerOfTwo(v) == \E k \in 0..30 : v = Pow2(k)
BitIsSet(bits, v) == (bits \div v) % 2 = 1

EntryOf(table, name) == CHOOSE i \in 1..Len(table) : table[i].name = name

\* C3: collectFlagNames returns, in ascending order, exactly the names of
\* the constants whose value is a nonzero power of two with its bit set in
\* the bitmask; for a zero bitmask the result is empty.
C3_SingleBitNamesSorted ==
    (done = "collectFlagNames") =>
        /\ {names[i] : i \in 1..Len(names)} =
               {flagEnum[i].name : i \in
                   {j \in 1..Len(flagEnum) :
                       /\ flagEnum[j].isNumber
                       /\ IsPowerOfTwo(flagEnum[j].value)
                       /\ BitIsSet(flagBits, flagEnum[j].value)}}
        /\ \A i, j \in 1..Len(names) : i < j => Rank(names[i]) < Rank(names[j])
        /\ flagBits = 0 => names = <<>>

\* two names come back in ascending order from a table that holds them
\* in descending order
C3_Witness ==
    /\ done = "collectFlagNames"
    /\ Len(flagEnum) = 2
    /\ Rank(flagEnum[1].name) > Rank(flagEnum[2].name)
    /\ flagEnum[1].value = 2 /\ flagEnum[2].value = 1
    /\ flagBits = 7
    /\ names = <<flagEnum[2].name, flagEnum[1].name>>

\* C4: the names returned never include two different names with the same
\* bit value.
C4_NoTwoNamesForOneBit ==
    (done = "collectFlagNames") =>
        \A i, j \in 1..Len(names) :
            i # j => flagEnum[EntryOf(flagEnum, names[i])].value
                       # flagEnum[EntryOf(flagEnum, names[j])].value

-----------------------------------------------------------------------------
(* collectProperties *)

\* A queried type is the sequence of its constituents: one for a type that
\* is not a union, two or more for a union.  A constituent is null or
\* undefined (nullish), or a type with the properties that the checker
\* gives for its apparent type: symbols of distinct names, each with or
\* without SymbolFlags.Optional.
PropSymbols == [name : PropNames, optional : BOOLEAN]

PropLists ==
    {l \in SeqsUpTo(PropSymbols, Len(PropNameOrder)) :
        \A i, j \in 1..Len(l) : i # j => l[i].name # l[j].name}

Constituents ==
    {[nullish |-> TRUE, props |-> <<>>]} \cup
    {[nullish |-> FALSE, props |-> l] : l \in PropLists}

Types == UNION {[1..k -> Constituents] : k \in 1..MaxMembers}

\* Wide types, for the limit of the list: a union of two object types, the
\* first declaring the k first names from the last to the first, the second
\* declaring the names from the j-th on
WideProps(from, to, descending) ==
    [i \in 1..(to - from + 1) |->
        [name |-> WideNameOrder[IF descending THEN to + 1 - i ELSE from + i - 1],
         optional |-> FALSE]]

WideTypes ==
    {<<[nullish |-> FALSE, props |-> WideProps(1, k, TRUE)],
       [nullish |-> FALSE, props |-> WideProps(j, MaxWide, FALSE)]>> :
        k \in 0..MaxWide, j \in 1..(MaxWide + 1)}

Never == [nullish |-> FALSE, props |-> <<>>]

\* checker.getNonNullableType(type): the constituents that are not nullish;
\* never when none is left
RECURSIVE NotNullish(_)
NotNullish(type) ==
    IF type = <<>> THEN <<>>
    ELSE (IF Head(type).nullish THEN <<>> ELSE <<Head(type)>>) \o NotNullish(Tail(type))

getNonNullableType(type) ==
    IF NotNullish(type) = <<>> THEN <<Never>> ELSE NotNullish(type)

\* picker.ts 384-386: the members of a union, or the type alone
memberTypesOf(type) == getNonNullableType(type)

Has(map, key) == key \in DOMAIN map
Put(map, key, value) == [k \in DOMAIN map \cup {key} |-> IF k = key THEN value ELSE map[k]]
EmptyMap == [k \in {} |-> 0]

\* the three maps of picker.ts 388-390, and the insertion order of the
\* keys of symbolByName
NoProps == [symbolByName |-> EmptyMap, keys |-> <<>>,
            presenceByName |-> EmptyMap, optionalFlagByName |-> EmptyMap]

\* a slip: the optional flag of the last member seen wins
recordProp_LastFlagWins(acc, prop, member, seen) ==
    [symbolByName |->
         IF Has(acc.symbolByName, prop.name) THEN acc.symbolByName
         ELSE Put(acc.symbolByName, prop.name, member),
     keys |-> SetAdd(acc.keys, prop.name),
     presenceByName |->
         IF prop.name \in seen THEN acc.presenceByName
         ELSE Put(acc.presenceByName, prop.name,
                  (IF Has(acc.presenceByName, prop.name)
                   THEN acc.presenceByName[prop.name] ELSE 0) + 1),
     optionalFlagByName |-> Put(acc.optionalFlagByName, prop.name, prop.optional)]

\* picker.ts 396-410: one property of one member; the symbol kept for a name
\* is recorded by the index of the member it comes from
recordProp(acc, prop, member, seen) ==
    [symbolByName |->
         IF Has(acc.symbolByName, prop.name) THEN acc.symbolByName
         ELSE Put(acc.symbolByName, prop.name, member),
     keys |-> SetAdd(acc.keys, prop.name),
     presenceByName |->
         IF prop.name \in seen THEN acc.presenceByName
         ELSE Put(acc.presenceByName, prop.name,
                  (IF Has(acc.presenceByName, prop.name)
                   THEN acc.presenceByName[prop.name] ELSE 0) + 1),
     optionalFlagByName |->
         IF prop.optional THEN Put(acc.optionalFlagByName, prop.name, TRUE)
         ELSE IF ~Has(acc.optionalFlagByName, prop.name)
         THEN Put(acc.optionalFlagByName, prop.name, FALSE)
         ELSE acc.optionalFlagByName]

\* picker.ts 395-410: the properties of one member.  The maps are looked at
\* after every property (the name just recorded is always in symbolByName),
\* which makes TLC evaluate them step by step and not as one nested term.
RECURSIVE memberLoop(_, _, _, _)
memberLoop(acc, props, member, seen) ==
    IF props = <<>> THEN acc
    ELSE LET next == recordProp(acc, Head(props), member, seen)
         IN  IF Has(next.symbolByName, Head(props).name)
             THEN memberLoop(next, Tail(props), member,
                             seen \cup {Head(props).name})
             ELSE next

\* picker.ts 392-411: the members in order, from member number `member`
RECURSIVE membersLoop(_, _, _)
membersLoop(acc, members, member) ==
    IF member > Len(members) THEN acc
    ELSE membersLoop(memberLoop(acc, members[member].props, member, {}),
                     members, member + 1)

\* picker.ts 416-429: the entry of one name
PropertyInfo(acc, name, totalMembers) ==
    LET optionalByUnion ==
            (IF Has(acc.presenceByName, name) THEN acc.presenceByName[name] ELSE 0)
                < totalMembers
        optionalByFlag ==
            IF Has(acc.optionalFlagByName, name) THEN acc.optionalFlagByName[name]
            ELSE FALSE
    IN  [name |-> name,
         type |-> acc.symbolByName[name],
         optional |-> optionalByFlag \/ optionalByUnion]

\* a slip: the limit applied to the names in insertion order, before the sort
collectProperties_SliceBeforeSort(type, limit) ==
    LET memberTypes == memberTypesOf(type)
        acc == membersLoop(NoProps, memberTypes, 1)
        totalMembers == IF Len(memberTypes) > 0 THEN Len(memberTypes) ELSE 1
        kept == SortNames(Slice(acc.keys, 0, limit))
    IN  [i \in 1..Len(kept) |-> PropertyInfo(acc, kept[i], totalMembers)]

\* picker.ts 377-432
collectProperties(type, limit) ==
    LET memberTypes == memberTypesOf(type)
        acc == membersLoop(NoProps, memberTypes, 1)
        sorted == SortNames(acc.keys)
        totalMembers == IF Len(memberTypes) > 0 THEN Len(memberTypes) ELSE 1
        kept == Slice(sorted, 0, limit)
    IN  [i \in 1..Len(kept) |-> PropertyInfo(acc, kept[i], totalMembers)]

PropertyLimit == 25

CollectProperties ==
    /\ done = "init"
    /\ properties' = collectProperties(ptype, PropertyLimit)
    /\ done' = "collectProperties"
    /\ UNCHANGED ptype

InitProps ==
    /\ ptype \in Types \cup WideTypes
    /\ properties = <<>>
    /\ IdleResolve /\ IdleLocate /\ IdleFlags /\ IdleSnippet /\ IdleFilter
    /\ IdleBuild /\ IdleSigs /\ IdlePick
    /\ done = "init"

NextProps ==
    /\ CollectProperties
    /\ UNCHANGED <<resolveVars, locateVars, flagVars, snippetVars, filterVars,
                    buildVars, sigVars, pickVars>>

SpecProps == InitProps /\ [][NextProps]_vars

\* reference notions: the contributing members of a type are its
\* constituents that are not nullish; it is a union when it has several
Contributing(type) == {i \in 1..Len(type) : ~type[i].nullish}
HasProp(c, name) == \E i \in 1..Len(c.props) : c.props[i].name = name
MarkedOptional(c, name) ==
    \E i \in 1..Len(c.props) : c.props[i].name = name /\ c.props[i].optional

\* C5: a reported property is optional exactly when it carries the
\* optional marker on some contributing member, or the type (nullability
\* stripped) is a union and some member lacks the property.
C5_OptionalIffMarkedOrPartial ==
    (done = "collectProperties") =>
        \A i \in 1..Len(properties) :
            properties[i].optional <=>
                \/ \E m \in Contributing(ptype) :
                       MarkedOptional(ptype[m], properties[i].name)
                \/ /\ Cardinality(Contributing(ptype)) >= 2
                   /\ \E m \in Contributing(ptype) :
                          ~HasProp(ptype[m], properties[i].name)

\* scenario B under a nullable union: id on both members, email on one
\* and marked on none, reported as id required and email optional
C5_Witness ==
    /\ done = "collectProperties"
    /\ \E m \in 1..Len(ptype) : ptype[m].nullish
    /\ Cardinality(Contributing(ptype)) = 2
    /\ \A m \in Contributing(ptype) : ~MarkedOptional(ptype[m], "email")
    /\ properties = <<[name |-> "email", type |-> 2, optional |-> TRUE],
                      [name |-> "id", type |-> 1, optional |-> FALSE]>>

-----------------------------------------------------------------------------
(* condenseSnippet *)

\* the characters that \s matches, among those of the model
IsSpace(c) == c \in {" ", LF, "\t"}

\* snippet.replace(/\s+/g, " "): every run of whitespace becomes one space.
\* The characters lo..hi of t after the replacement, by halves (a character
\* of a run is dropped unless it is the first of the run):
RECURSIVE ReplaceSpaceRunsIn(_, _, _)
ReplaceSpaceRunsIn(t, lo, hi) ==
    IF lo > hi THEN <<>>
    ELSE IF lo = hi
    THEN IF ~IsSpace(t[lo]) THEN <<t[lo]>>
         ELSE IF lo > 1 /\ IsSpace(t[lo - 1]) THEN <<>>
         ELSE <<" ">>
    ELSE LET mid == (lo + hi) \div 2
         IN  ReplaceSpaceRunsIn(t, lo, mid) \o ReplaceSpaceRunsIn(t, mid + 1, hi)

ReplaceSpaceRuns(t) == ReplaceSpaceRunsIn(t, 1, Len(t))

\* String.prototype.trim
Trim(t) ==
    LET solid == {i \in 1..Len(t) : ~IsSpace(t[i])}
    IN  IF solid = {} THEN <<>>
        ELSE SubSeq(t, CHOOSE i \in solid : \A j \in solid : i <= j,
                       CHOOSE i \in solid : \A j \in solid : j <= i)

\* the text that picker.ts 482 appends: the three characters U+00E2,
\* U+20AC, U+00A6 that the source file holds there
TruncationMark == <<"U+00E2", "U+20AC", "U+00A6">>

\* the default of the maxLength parameter (picker.ts 477)
DefaultMaxLength == 160

\* picker.ts 477-483
condenseSnippet(s, maxLength) ==
    LET singleLine == Trim(ReplaceSpaceRuns(s))
    IN  IF Len(singleLine) <= maxLength THEN singleLine
        ELSE Slice(singleLine, 0, maxLength) \o TruncationMark

\* The declaration texts of the model: the text from declaration.getStart()
\* to declaration.getEnd() (picker.ts 441) starts and ends with a token, so
\* with no whitespace.  A text is a run of "x" and then a short body.
Padding(n) == [i \in 1..n |-> "x"]
PadLengths == {0} \cup (DefaultMaxLength - MaxBody)..(DefaultMaxLength + MaxExtra)
DeclarationTexts ==
    {t \in {Padding(n) \o b : n \in PadLengths,
                              b \in SeqsUpTo({"x", " ", LF}, MaxBody)} :
        t # <<>> => ~IsSpace(t[1]) /\ ~IsSpace(t[Len(t)])}

CondenseSnippet ==
    /\ done = "init"
    /\ snippet' = condenseSnippet(rawSnippet, DefaultMaxLength)
    /\ done' = "condenseSnippet"
    /\ UNCHANGED rawSnippet

InitSnippet ==
    /\ rawSnippet \in DeclarationTexts
    /\ snippet = <<>>
    /\ IdleResolve /\ IdleLocate /\ IdleFlags /\ IdleProps /\ IdleFilter
    /\ IdleBuild /\ IdleSigs /\ IdlePick
    /\ done = "init"

NextSnippet ==
    /\ CondenseSnippet
    /\ UNCHANGED <<resolveVars, locateVars, flagVars, propVars, filterVars,
                    buildVars, sigVars, pickVars>>

SpecSnippet == InitSnippet /\ [][NextSnippet]_vars

\* reference notions: the text with each whitespace run collapsed to one
\* space (the runs of t are told by their first characters), and the
\* ellipsis character U+2026
RunStarts(t) == {i \in 1..Len(t) : IsSpace(t[i]) /\ (i = 1 \/ ~IsSpace(t[i - 1]))}
RECURSIVE CollapsedIn(_, _, _)
CollapsedIn(t, lo, hi) ==
    IF lo > hi THEN <<>>
    ELSE IF lo = hi
    THEN IF lo \in RunStarts(t) THEN <<" ">>
         ELSE IF IsSpace(t[lo]) THEN <<>> ELSE <<t[lo]>>
    ELSE CollapsedIn(t, lo, (lo + hi) \div 2) \o CollapsedIn(t, (lo + hi) \div 2 + 1, hi)

Collapsed(t) == CollapsedIn(t, 1, Len(t))

Ellipsis == "U+2026"

\* C7: condenseSnippet returns the text with each whitespace run collapsed
\* to one space when that is at most 160 characters, and otherwise its
\* first 160 characters followed by exactly one ellipsis character.
C7_CollapsedOrTruncated ==
    (done = "condenseSnippet") =>
        IF Len(Collapsed(rawSnippet)) <= 160
        THEN snippet = Collapsed(rawSnippet)
        ELSE /\ Len(snippet) = 161
             /\ SubSeq(snippet, 1, 160) = SubSeq(Collapsed(rawSnippet), 1, 160)
             /\ snippet[161] = Ellipsis

-----------------------------------------------------------------------------
(* applyOutputFilters *)

\* the lists of a result record: n entries, told apart by their number
DiagnosticList(n) == [i \in 1..n |-> [category |-> "error", message |-> i]]
PropertyList(n) == [i \in 1..n |-> [name |-> i, type |-> "string", optional |-> FALSE]]
SignatureList(n) == [i \in 1..n |-> [kind |-> "call", signature |-> i]]
DeclarationList(n) == [i \in 1..n |-> [file |-> "a.ts", line |-> i, column |-> 1,
                                       kind |-> "VariableDeclaration", snippet |-> i]]

\* a TypeInfo (picker.ts 50-76); symbol and project are optional
TypeInfos ==
    [file : {"a.ts"},
     project : {Undefined, Some("tsconfig.json")},
     position : {[line |-> 1, column |-> 1, offset |-> 0]},
     matchedText : {"x"},
     nodeKind : {"Identifier"},
     typeString : {"string"},
     typeFlags : {[flags |-> 4, names |-> <<"String">>]},
     symbol : {Undefined, Some([name |-> "x", flags |-> [flags |-> 2, names |-> <<"BlockScopedVariable">>]])},
     signatures : {SignatureList(n) : n \in 0..MaxList},
     properties : {PropertyList(n) : n \in 0..MaxList},
     declarations : {DeclarationList(n) : n \in 0..1},
     diagnostics : {DiagnosticList(n) : n \in 0..MaxList}]

\* the three omit options as parseArgs gives them: set or not
OmitValues == [omitDiagnostics : BOOLEAN, omitProperties : BOOLEAN, omitSignatures : BOOLEAN]

\* a slip: no copy is made, so the assignments go to the record passed in
applyOutputFilters_NoClone(r, v) ==
    LET out == [r EXCEPT !.diagnostics = IF v.omitDiagnostics THEN <<>> ELSE @,
                         !.properties = IF v.omitProperties THEN <<>> ELSE @,
                         !.signatures = IF v.omitSignatures THEN <<>> ELSE @]
    IN  [result |-> out, clone |-> out]

\* cli.ts 132-153: the record passed in as the call leaves it, and the
\* clone returned
applyOutputFilters(r, v) ==
    LET clone0 == [r EXCEPT !.diagnostics = r.diagnostics,
                            !.properties = r.properties,
                            !.signatures = r.signatures]
        clone1 == IF v.omitDiagnostics THEN [clone0 EXCEPT !.diagnostics = <<>>] ELSE clone0
        clone2 == IF v.omitProperties THEN [clone1 EXCEPT !.properties = <<>>] ELSE clone1
        clone3 == IF v.omitSignatures THEN [clone2 EXCEPT !.signatures = <<>>] ELSE clone2
    IN  [result |-> r, clone |-> clone3]

ApplyOutputFilters ==
    /\ done = "init"
    /\ result' = applyOutputFilters(result, values).result
    /\ transformed' = applyOutputFilters(result, values).clone
    /\ done' = "applyOutputFilters"
    /\ UNCHANGED values

InitFilter ==
    /\ result \in TypeInfos
    /\ values \in OmitValues
    /\ transformed = <<>>
    /\ IdleResolve /\ IdleLocate /\ IdleFlags /\ IdleProps /\ IdleSnippet
    /\ IdleBuild /\ IdleSigs /\ IdlePick
    /\ done = "init"

NextFilter ==
    /\ ApplyOutputFilters
    /\ UNCHANGED <<resolveVars, locateVars, flagVars, propVars, snippetVars,
                    buildVars, sigVars, pickVars>>

SpecFilter == InitFilter /\ [][NextFilter]_vars

OtherFields == {"file", "project", "position", "matchedText", "nodeKind",
                "typeString", "typeFlags", "symbol", "declarations"}

\* C6: applyOutputFilters yields a record in which each flagged list is
\* empty, each unflagged list equals the original list and every other
\* field is unchanged; the record passed in is not modified.
C6_FiltersIndependent ==
    [][(done' = "applyOutputFilters" /\ done = "init") =>
          /\ transformed'.diagnostics = IF values.omitDiagnostics THEN <<>> ELSE result.diagnostics
          /\ transformed'.properties = IF values.omitProperties THEN <<>> ELSE result.properties
          /\ transformed'.signatures = IF values.omitSignatures THEN <<>> ELSE result.signatures
          /\ \A f \in OtherFields : transformed'[f] = result[f]
          /\ DOMAIN transformed' = DOMAIN result
          /\ result' = result]_vars

\* only the properties are omitted from a record whose three lists are
\* all non-empty
C6_Witness ==
    /\ done = "applyOutputFilters"
    /\ values = [omitDiagnostics |-> FALSE, omitProperties |-> TRUE, omitSignatures |-> FALSE]
    /\ Len(result.diagnostics) = 2 /\ Len(result.properties) = 2 /\ Len(result.signatures) = 1
    /\ result.symbol # Undefined
    /\ transformed.properties = <<>>
    /\ transformed.diagnostics = result.diagnostics
    /\ transformed.signatures = result.signatures

-----------------------------------------------------------------------------
(* buildQuery *)
Digits == <<"0", "1", "2", "3", "4", "5", "6", "7", "8", "9">>
IsDigit(c) == \E i \in 1..10 : Digits[i] = c
DigitValue(c) == (CHOOSE i \in 1..10 : Digits[i] = c) - 1
AllDigits(s) == Len(s) > 0 /\ \A i \in 1..Len(s) : IsDigit(s[i])

RECURSIVE DecimalValue(_)
DecimalValue(s) ==
    IF s = <<>> THEN 0
    ELSE 10 * DecimalValue(SubSeq(s, 1, Len(s) - 1)) + DigitValue(s[Len(s)])

NaN == [nan |-> TRUE, value |-> 0]
Num(n) == [nan |-> FALSE, value |-> n]

\* Number(string) of cli.ts 97, 115, 116: the empty string is 0, a signed
\* decimal numeral is its value, any other text here is NaN
Number(s) ==
    IF s = <<>> THEN Num(0)
    ELSE IF AllDigits(s) THEN Num(DecimalValue(s))
    ELSE IF s[1] = "-" /\ AllDigits(Tail(s)) THEN Num(0 - DecimalValue(Tail(s)))
    ELSE IF s[1] = "+" /\ AllDigits(Tail(s)) THEN Num(DecimalValue(Tail(s)))
    ELSE NaN

\* the texts given to --line, --column and --index
ArgStrings ==
    {<<>>, <<"x">>, <<"-", "1">>} \cup {<<Digits[n + 1]>> : n \in 0..MaxArg}
\* the texts given to --regex
RegexStrings == {<<>>, <<"a">>, <<"a", "*">>}

Optional(S) == {Undefined} \cup {Some(v) : v \in S}

\* the values parseArgs hands to buildQuery (cli.ts 25-42)
OptionValues ==
    [line : Optional(ArgStrings), column : Optional(ArgStrings),
     regex : Optional(RegexStrings), regexFlags : Optional({<<"g">>}),
     index : Optional(ArgStrings), project : Optional({"tsconfig.json"})]

NoBuilt == <<>>

\* cli.ts 82-130: the query built, or the error thrown
buildQuery(file, v) ==
    LET hasRegex == v.regex # Undefined /\ Len(v.regex[1]) > 0
        hasLine == v.line # Undefined
        hasColumn == v.column # Undefined
        matchIndex == IF v.index # Undefined THEN Some(Number(v.index[1])) ELSE Undefined
        line == Number(v.line[1])
        column == Number(v.column[1])
    IN  IF hasRegex
        THEN IF matchIndex # Undefined /\ matchIndex[1].nan
             THEN [query |-> NoBuilt, err |-> "InvalidIndex"]
             ELSE [query |-> [file |-> file, project |-> v.project,
                              regex |-> v.regex, regexFlags |-> v.regexFlags,
                              matchIndex |-> IF matchIndex = Undefined THEN Undefined
                                             ELSE Some(matchIndex[1].value),
                              line |-> Undefined, column |-> Undefined],
                   err |-> "none"]
        ELSE IF hasLine # hasColumn
        THEN [query |-> NoBuilt, err |-> "LineColumnTogether"]
        ELSE IF ~hasLine \/ ~hasColumn
        THEN [query |-> NoBuilt, err |-> "RegexOrLineColumn"]
        ELSE IF line.nan \/ column.nan
        THEN [query |-> NoBuilt, err |-> "InvalidLineOrColumn"]
        ELSE [query |-> [file |-> file, project |-> v.project,
                         regex |-> Undefined, regexFlags |-> Undefined,
                         matchIndex |-> Undefined,
                         line |-> Some(line.value), column |-> Some(column.value)],
              err |-> "none"]

\* cli.ts 56: const query = buildQuery(file, values)
BuildQuery ==
    /\ done = "init"
    /\ LET r == buildQuery(FileName, options)
       IN  built' = r.query /\ buildErr' = r.err
    /\ done' = "buildQuery"
    /\ UNCHANGED options

InitBuild ==
    /\ options \in OptionValues
    /\ built = NoBuilt /\ buildErr = "none"
    /\ IdleResolve /\ IdleLocate /\ IdleFlags /\ IdleProps /\ IdleSnippet
    /\ IdleFilter /\ IdleSigs /\ IdlePick
    /\ done = "init"

NextBuild ==
    /\ BuildQuery
    /\ UNCHANGED <<resolveVars, locateVars, flagVars, propVars, snippetVars,
                    filterVars, sigVars, pickVars>>

SpecBuild == InitBuild /\ [][NextBuild]_vars

-----------------------------------------------------------------------------
(* Reference notions for the claim about buildQuery *)

\* the request supplies a pattern: --regex with a non-empty text
SuppliesPattern == options.regex # Undefined /\ options.regex[1] # <<>>
SuppliesLine == options.line # Undefined
SuppliesColumn == options.column # Undefined
Built == done = "buildQuery"
Rejected == Built /\ buildErr # "none" /\ built = NoBuilt

\* C11: a request that supplies both a pattern and a line and/or a column, or
\* only one of line and column, is rejected with an error: buildQuery returns
\* no query for it.
C11_OneVariantOrRejected ==
    (Built /\ ( (SuppliesPattern /\ (SuppliesLine \/ SuppliesColumn))
              \/ (SuppliesLine # SuppliesColumn) ))
        => Rejected

-----------------------------------------------------------------------------
(* Reference notions for the claim about the messages of resolvePosition *)

\* the message names the line and the column of the query
CarriesLineAndColumn ==
    message.line = Some(query.line) /\ message.column = Some(query.column)
\* the message names the pattern and the requested index
CarriesPatternAndIndex ==
    /\ message.regex = Some(QueryRegex(query))
    /\ message.matchIndex = Some(QueryMatchIndex(query))

\* C14: every InvalidQuery failure carries a message that includes the
\* offending values: the line and column for a position query with a
\* non-positive line or column, the pattern and the requested index for a
\* pattern query with insufficient matches.
C14_MessageCarriesValues ==
    (pc = "thrown" /\ err \in InvalidQuery) =>
        IF isRegexQuery(query) THEN CarriesPatternAndIndex ELSE CarriesLineAndColumn

-----------------------------------------------------------------------------
(* Reference notions for the claim about the termination of resolvePosition *)

\* a loop head from which the loop never exits: the next attempt matches and
\* leaves lastIndex where it is, and the counter is already past the requested
\* index, so the attempt after it starts from the same lastIndex with a larger
\* counter, and so on for ever
LoopsForever ==
    /\ pc = "exec"
    /\ index > QueryMatchIndex(query)
    /\ HasFlag(flags, "g")
    /\ LET r == Exec(QueryRegex(query), flags, text, lastIndex)
       IN  r.match.found /\ r.lastIndex = lastIndex

\* C17: for every source text, pattern, flags and match index the
\* match-scanning loop of resolvePosition terminates after finitely many match
\* attempts with a location or an error: it never reaches a loop head from
\* which it loops for ever.
C17_LoopTerminates == ~LoopsForever

-----------------------------------------------------------------------------
(* collectSignatures *)

\* the signatures of a type as the oracle lists them
\* (checker.getSignaturesOfType): the i-th declared signature of a kind
Signature(kind, i) == [declared |-> kind, ordinal |-> i]
SignaturesOf(kind, n) == [i \in 1..n |-> Signature(kind, i)]

\* the types queried: n call signatures and m construct signatures
SigTypes ==
    {[call |-> SignaturesOf("Call", n), construct |-> SignaturesOf("Construct", m)] :
        n \in 0..MaxSignatures, m \in 0..MaxSignatures}

\* checker.signatureToString(signature, node): the text of the signature,
\* which tells its kind and which declaration it is
signatureToString(sig) ==
    IF sig.declared = "Construct"
    THEN <<"new", "(", sig.ordinal, ")">>
    ELSE <<"(", sig.ordinal, ")">>

\* picker.ts 354: limit = 5
SignatureLimit == 5

\* the entries pushed by one of the two loops (picker.ts 358-363, 365-372)
SignatureInfos(kind, list) ==
    [i \in 1..Len(list) |-> [kind |-> kind, signature |-> signatureToString(list[i])]]

\* a slip: one limit for both kinds, the construct signatures get what the
\* call signatures left of it
collectSignatures_SharedLimit(type, limit) ==
    LET calls == SignatureInfos("call", Slice(type.call, 0, limit))
    IN  calls \o SignatureInfos("construct", Slice(type.construct, 0, limit - Len(calls)))

\* picker.ts 350-375
collectSignatures(type, limit) ==
    SignatureInfos("call", Slice(type.call, 0, limit))
        \o SignatureInfos("construct", Slice(type.construct, 0, limit))

\* picker.ts 128: const signatures = collectSignatures(type, checker, node)
CollectSignatures ==
    /\ done = "init"
    /\ signatures' = collectSignatures(sigType, SignatureLimit)
    /\ done' = "collectSignatures"
    /\ UNCHANGED sigType

InitSigs ==
    /\ sigType \in SigTypes
    /\ signatures = <<>>
    /\ IdleResolve /\ IdleLocate /\ IdleFlags /\ IdleProps /\ IdleSnippet
    /\ IdleFilter /\ IdleBuild /\ IdlePick
    /\ done = "init"

NextSigs ==
    /\ CollectSignatures
    /\ UNCHANGED <<resolveVars, locateVars, flagVars, propVars, snippetVars,
                    filterVars, buildVars, pickVars>>

SpecSigs == InitSigs /\ [][NextSigs]_vars

-----------------------------------------------------------------------------
(* Reference notions for the claim about collectSignatures *)

\* the entries of the returned list of one kind, in the order of the list
RECURSIVE OfKind(_, _)
OfKind(list, kind) ==
    IF list = <<>> THEN <<>>
    ELSE (IF Head(list).kind = kind THEN <<Head(list)>> ELSE <<>>)
             \o OfKind(Tail(list), kind)

\* the texts of the first min(5, n) signatures of a declared list
FirstFive(declared) ==
    [i \in 1..Min(5, Len(declared)) |-> signatureToString(declared[i])]
SignatureTexts(list) == [i \in 1..Len(list) |-> list[i].signature]

\* C15: collectSignatures returns the first min(5, n) call signatures in the
\* oracle's declared order followed by the first min(5, m) construct
\* signatures in the oracle's declared order: no construct signature precedes
\* a call signature, the order within each kind is kept, and there are never
\* more than 5 entries of a kind.
C15_CallThenConstructFirstFive ==
    done = "collectSignatures" =>
        LET calls == OfKind(signatures, "call")
            constructs == OfKind(signatures, "construct")
        IN  /\ SignatureTexts(calls) = FirstFive(sigType.call)
            /\ SignatureTexts(constructs) = FirstFive(sigType.construct)
            /\ Len(signatures) = Len(calls) + Len(constructs)
            /\ \A i, j \in 1..Len(signatures) :
                  (signatures[i].kind = "construct" /\ signatures[j].kind = "call")
                      => j < i
            /\ Len(calls) <= 5 /\ Len(constructs) <= 5

\* more than five signatures of each kind were declared and both kinds are
\* in the list returned
C15_Witness ==
    /\ done = "collectSignatures"
    /\ Len(sigType.call) > 5 /\ Len(sigType.construct) > 5
    /\ Len(signatures) = 10

-----------------------------------------------------------------------------
(* Reference notions for the claim about the list of collectProperties *)

\* the property names over all contributing members
UnionOfNames(type) ==
    {type[m].props[i].name : <<m, i>> \in
        {<<m, i>> \in Contributing(type) \X (1..MaxWide + Len(PropNameOrder)) :
            i <= Len(type[m].props)}}

\* the 25 first names of a set of names in sorted order
FirstTwentyFive(S) ==
    {n \in S : Cardinality({k \in S : Rank(k) < Rank(n)}) < 25}

\* the first contributing member (in member order) that has the property,
\* counted among the contributing members
FirstMemberWith(type, name) ==
    LET m == CHOOSE m \in Contributing(type) :
                 /\ HasProp(type[m], name)
                 /\ \A k \in Contributing(type) : HasProp(type[k], name) => m <= k
    IN  Cardinality({k \in Contributing(type) : k <= m})

\* C16: the list returned by collectProperties has at most 25 entries, is in
\* strictly ascending name order with one entry per distinct property name,
\* consists of the first 25 names of the sorted union of the property names of
\* the contributing members, and renders each entry from the symbol of the
\* first member that has the property.
C16_FirstTwentyFiveSortedFirstMember ==
    done = "collectProperties" =>
        /\ Len(properties) <= 25
        /\ \A i, j \in 1..Len(properties) :
              i < j => Rank(properties[i].name) < Rank(properties[j].name)
        /\ {properties[i].name : i \in 1..Len(properties)}
              = FirstTwentyFive(UnionOfNames(ptype))
        /\ \A i \in 1..Len(properties) :
              properties[i].type = FirstMemberWith(ptype, properties[i].name)

\* more than 25 names over two members that share some: the list is cut at
\* 25 and holds an entry rendered from each member
C16_Witness ==
    /\ done = "collectProperties"
    /\ Cardinality(UnionOfNames(ptype)) > 25
    /\ Len(properties) = 25
    /\ \E n \in UnionOfNames(ptype) :
          \A m \in Contributing(ptype) : HasProp(ptype[m], n)
    /\ \E i, j \in 1..Len(properties) :
          properties[i].type = 1 /\ properties[j].type = 2

-----------------------------------------------------------------------------
(* pickType *)
PickAlphabet == {"a", LF}
PickTexts == SeqsUpTo(PickAlphabet, MaxPickLen)

\* the syntax trees of a source text: they end where the text ends
PickTreeSet ==
    {t \in {Append(b, EndOfFileToken(b)) :
               b \in UNION {TreesOfSize(k) : k \in 1..MaxPickNodes}} :
        t[1].start = t[2].start /\ t[1].end <= MaxPickLen}
PickTrees(t) == {tr \in PickTreeSet : tr[1].end = Len(t)}

\* the queries handed to pickType
PickQueries ==
    {q \in RegexQueries :
        q.regexFlags = Undefined /\ q.matchIndex \in {Undefined, Some(1)}}
    \cup PositionQueries

\* query.project and what it leads to on disk: no pointer and no
\* tsconfig.json above the file ("absent"), no pointer and one found
\* ("discovered"), a pointer to a configuration file or to a directory that
\* holds one, a pointer to nothing, to a directory without tsconfig.json, to
\* a file that is not .json, a configuration that cannot be read or does not
\* parse, and a program that the compiler fails to build
ProjectStates ==
    {"absent", "discovered", "file", "directory", "missing",
     "directoryWithoutConfig", "notJson", "unreadable", "invalid", "programFails"}
ConfigPath == "tsconfig.json"

\* picker.ts 231-256
resolveProjectConfig(p) ==
    IF p = "missing" THEN [configPath |-> Undefined, err |-> "ProjectPathMissing"]
    ELSE IF p = "directoryWithoutConfig"
    THEN [configPath |-> Undefined, err |-> "NoTsconfigInDirectory"]
    ELSE IF p = "notJson" THEN [configPath |-> Undefined, err |-> "ProjectFileNotJson"]
    ELSE IF p = "absent" THEN [configPath |-> Undefined, err |-> "none"]
    ELSE [configPath |-> Some(ConfigPath), err |-> "none"]

\* picker.ts 180-229: the configuration path of the program context, or the
\* error thrown
createProgramForFile(p) ==
    LET c == resolveProjectConfig(p)
    IN  IF c.err # "none" THEN c
        ELSE IF c.configPath # Undefined /\ p = "unreadable"
        THEN [configPath |-> Undefined, err |-> "TsconfigUnreadable"]
        ELSE IF c.configPath # Undefined /\ p = "invalid"
        THEN [configPath |-> Undefined, err |-> "TsconfigInvalid"]
        ELSE IF p = "programFails"
        THEN [configPath |-> Undefined, err |-> "CreateProgramFailed"]
        ELSE c

\* node.getText(): the text of a node without its leading trivia
getText(t, tr, n) == Slice(t, tr[n].start, tr[n].end)

\* a reading of matchedText in which the location's text is passed on as is
matchedTextOf_AsResolved(res, nodeText) == res.matchedText

\* picker.ts 131-133: the matched text of the location when it is not
\* empty, the text of the node otherwise
matchedTextOf(res, nodeText) ==
    IF res.matchedText # <<>> /\ Len(res.matchedText) > 0
    THEN res.matchedText ELSE nodeText

\* checker.getTypeAtLocation(node), and the lists collected from it: here a
\* type without signatures, properties, symbol or diagnostics
TypeAtLocation == [call |-> <<>>, construct |-> <<>>, members |-> <<Never>>]

NoRecord == <<>>

\* picker.ts 135-177: the record returned
TypeInfo(cfg, res, tr, n, t) ==
    [file |-> FileName,
     project |-> cfg,
     position |-> [line |-> res.line, column |-> res.column, offset |-> res.position],
     matchedText |-> matchedTextOf(res, getText(t, tr, n)),
     nodeKind |-> IF n = 1 THEN "SourceFile"
                  ELSE IF n = Len(tr) THEN "EndOfFileToken" ELSE "Node",
     typeString |-> "never",
     typeFlags |-> [flags |-> 0, names |-> <<>>],
     symbol |-> Undefined,
     signatures |-> collectSignatures(TypeAtLocation, SignatureLimit),
     properties |-> collectProperties(TypeAtLocation.members, PropertyLimit),
     declarations |-> <<>>,
     diagnostics |-> <<>>]

\* the order in which pickType evaluates its steps, with the query resolved
\* before anything else
PickOrder_QueryFirst ==
    <<"resolvePosition", "existsSync", "createProgramForFile", "getSourceFiles",
      "findClosestNode", "collect">>

\* picker.ts 102-135: the order in which pickType evaluates its steps
PickOrder ==
    <<"existsSync", "createProgramForFile", "getSourceFiles", "resolvePosition",
      "findClosestNode", "collect">>

NextStep == PickOrder[Len(evaluated) + 1]
\* pickType is about to evaluate the step
Running(step) ==
    /\ stage = "call" /\ pc \in {"idle", "returned"}
    /\ Len(evaluated) < Len(PickOrder) /\ NextStep = step

\* picker.ts 103-106
PickExistsSync ==
    /\ Running("existsSync")
    /\ evaluated' = Append(evaluated, "existsSync")
    /\ \E exists \in BOOLEAN :
          IF exists
          THEN /\ targetFile' = "exists"
               /\ UNCHANGED <<stage, pickErr>>
          ELSE /\ targetFile' = "missing"
               /\ stage' = "thrown" /\ pickErr' = "FileNotFound"
    /\ UNCHANGED <<resolveVars, locateVars, project, record, done>>

\* picker.ts 108-110
PickCreateProgram ==
    /\ Running("createProgramForFile")
    /\ evaluated' = Append(evaluated, "createProgramForFile")
    /\ \E p \in ProjectStates :
          /\ project' = p
          /\ IF createProgramForFile(p).err = "none"
             THEN UNCHANGED <<stage, pickErr>>
             ELSE stage' = "thrown" /\ pickErr' = createProgramForFile(p).err
    /\ UNCHANGED <<resolveVars, locateVars, targetFile, record, done>>

\* picker.ts 112-119: the source file of the program, its text and its tree
PickGetSourceFiles ==
    /\ Running("getSourceFiles")
    /\ evaluated' = Append(evaluated, "getSourceFiles")
    /\ \/ /\ targetFile' = "notLoaded"
          /\ stage' = "thrown" /\ pickErr' = "SourceFileNotLoaded"
          /\ UNCHANGED <<text, tree>>
       \/ /\ targetFile' = "loaded"
          /\ \E t \in PickTexts : \E tr \in PickTrees(t) : text' = t /\ tree' = tr
          /\ UNCHANGED <<stage, pickErr>>
    /\ UNCHANGED <<query, pc, flags, lastIndex, index, resolution, err, message,
                    position, bestNode, project, record, done>>

\* picker.ts 121: the call of resolvePosition
PickResolvePosition ==
    /\ Running("resolvePosition")
    /\ pc = "idle"
    /\ evaluated' = Append(evaluated, "resolvePosition")
    /\ pc' = "call"
    /\ UNCHANGED <<text, query, flags, lastIndex, index, resolution, err, message,
                    locateVars, targetFile, project, stage, record, pickErr, done>>

\* picker.ts 121: resolvePosition runs
PickResolving ==
    /\ stage = "call"
    /\ \/ ResolvePositionQuery
       \/ ResolveRegexBegin
       \/ ResolveRegexExec
    /\ UNCHANGED <<locateVars, pickVars>>

\* picker.ts 121: the error of resolvePosition leaves pickType
PickResolveThrown ==
    /\ stage = "call" /\ pc = "thrown"
    /\ stage' = "thrown" /\ pickErr' = err
    /\ UNCHANGED <<resolveVars, locateVars, targetFile, project, evaluated,
                    record, done>>

\* picker.ts 122
PickFindClosestNode ==
    /\ Running("findClosestNode")
    /\ pc = "returned"
    /\ evaluated' = Append(evaluated, "findClosestNode")
    /\ position' = resolution.position
    /\ bestNode' = findClosestNode(tree, resolution.position)
    /\ UNCHANGED <<resolveVars, tree, targetFile, project, stage, record,
                    pickErr, done>>

\* picker.ts 124-177
PickCollect ==
    /\ Running("collect")
    /\ evaluated' = Append(evaluated, "collect")
    /\ record' = TypeInfo(createProgramForFile(project).configPath, resolution,
                          tree, bestNode, text)
    /\ stage' = "returned"
    /\ done' = "pickType"
    /\ UNCHANGED <<resolveVars, locateVars, targetFile, project, pickErr>>

InitPick ==
    /\ query \in PickQueries
    /\ text = <<>> /\ pc = "idle" /\ flags = <<>> /\ lastIndex = 0 /\ index = 0
    /\ resolution = NoResolution /\ err = "none" /\ message = NoMessage
    /\ IdleLocate
    /\ targetFile = "unread" /\ project = "unread" /\ stage = "call"
    /\ evaluated = <<>> /\ record = NoRecord /\ pickErr = "none"
    /\ IdleFlags /\ IdleProps /\ IdleSnippet /\ IdleFilter /\ IdleBuild /\ IdleSigs
    /\ done = "init"

NextPick ==
    /\ \/ PickExistsSync
       \/ PickCreateProgram
       \/ PickGetSourceFiles
       \/ PickResolvePosition
       \/ PickResolving
       \/ PickResolveThrown
       \/ PickFindClosestNode
       \/ PickCollect
    /\ UNCHANGED <<flagVars, propVars, snippetVars, filterVars, buildVars, sigVars>>

SpecPick == InitPick /\ [][NextPick]_vars

-----------------------------------------------------------------------------
(* Reference notions for the claims about pickType *)

\* the four kinds of the error taxonomy, as sets of the errors of the code;
\* a program without the target file is counted with the programs that
\* failed to build
FileNotFound == {"FileNotFound"}
ProjectResolutionError ==
    {"ProjectPathMissing", "NoTsconfigInDirectory", "ProjectFileNotJson",
     "TsconfigUnreadable", "TsconfigInvalid"}
OracleConstructionError == {"CreateProgramFailed", "SourceFileNotLoaded"}
Taxonomy ==
    FileNotFound \cup InvalidQuery \cup ProjectResolutionError
        \cup OracleConstructionError

RecordFields ==
    {"file", "project", "position", "matchedText", "nodeKind", "typeString",
     "typeFlags", "symbol", "signatures", "properties", "declarations",
     "diagnostics"}
Complete(r) == r # NoRecord /\ DOMAIN r = RecordFields

\* C12: pickType either returns a complete result record or fails with one
\* error of the taxonomy FileNotFound, InvalidQuery, ProjectResolutionError,
\* OracleConstructionError: no failure outside these four kinds is reachable
\* and no partially populated record is ever returned.
C12_CompleteRecordOrTaxonomyError ==
    /\ stage = "returned" => (Complete(record) /\ pickErr = "none")
    /\ stage = "thrown" => (record = NoRecord /\ pickErr \in Taxonomy)
    /\ stage = "call" => (record = NoRecord /\ pickErr = "none")

\* the matched text of the resolved location is the literal substring that
\* the pattern matched, or the empty string for a position query
LocationTextLiteralOrEmpty ==
    pc = "returned" =>
        IF isRegexQuery(query)
        THEN /\ resolution.matchedText
                  = Slice(text, resolution.position,
                          resolution.position + Len(resolution.matchedText))
             /\ MatchLen(QueryRegex(query), text, resolution.position)
                  = Len(resolution.matchedText)
        ELSE resolution.matchedText = <<>>

\* C13 as stated: the matched text is the literal substring matched by the
\* pattern for every pattern query and the empty string for every position
\* query, both in the resolved location and in the matchedText field of the
\* record returned by pickType.
C13_MatchedTextLiteralOrEmpty ==
    /\ LocationTextLiteralOrEmpty
    /\ stage = "returned" => record.matchedText = resolution.matchedText

\* C13 amended: the resolved location carries the literal substring matched
\* (pattern query) or the empty string (position query); the record carries
\* that text when it is not empty and the text of the located node otherwise,
\* which is the case of every position query and of an empty match.
C13_MatchedTextOrNodeText ==
    /\ LocationTextLiteralOrEmpty
    /\ stage = "returned" =>
          record.matchedText =
              IF resolution.matchedText = <<>>
              THEN Slice(text, tree[bestNode].start, tree[bestNode].end)
              ELSE resolution.matchedText

\* a position query returned with the text of its node, and not the empty
\* string, as matchedText
C13_Witness ==
    /\ stage = "returned"
    /\ ~isRegexQuery(query)
    /\ resolution.matchedText = <<>>
    /\ record.matchedText # <<>>
    /\ record.matchedText = getText(text, tree, bestNode)

\* the steps of pickType in their order
ValidationOrder ==
    <<"existsSync", "createProgramForFile", "getSourceFiles", "resolvePosition",
      "findClosestNode", "collect">>
\* the step that raises an error
StepOf(e) ==
    IF e \in FileNotFound THEN "existsSync"
    ELSE IF e \in ProjectResolutionError \cup {"CreateProgramFailed"}
    THEN "createProgramForFile"
    ELSE IF e = "SourceFileNotLoaded" THEN "getSourceFiles"
    ELSE "resolvePosition"
ProjectResolved == project \in {"absent", "discovered", "file", "directory"}

\* C18: pickType validates in a fixed order: file existence, then project
\* resolution and program construction, then query resolution.  When the
\* target file does not exist the failure is FileNotFound whatever the
\* project pointer and the query are; an InvalidQuery is raised only after
\* the file was found and the project resolved; at most one error is raised
\* per call and nothing is evaluated after it.
C18_FixedValidationOrder ==
    /\ evaluated = SubSeq(ValidationOrder, 1, Len(evaluated))
    /\ targetFile = "missing" => (stage = "thrown" /\ pickErr = "FileNotFound")
    /\ (pc = "thrown" /\ err \in InvalidQuery) =>
          (targetFile = "loaded" /\ ProjectResolved)
    /\ pickErr \in InvalidQuery => (targetFile = "loaded" /\ ProjectResolved)
    /\ stage = "thrown" =>
          (pickErr # "none" /\ evaluated[Len(evaluated)] = StepOf(pickErr))
    /\ pickErr # "none" => stage = "thrown"

\* a non-positive line reported after the file was found and the project
\* resolved from a pointer
C18_Witness ==
    /\ stage = "thrown" /\ pickErr = "LineColumnNotPositive"
    /\ ~isRegexQuery(query) /\ query.line <= 0
    /\ targetFile = "loaded" /\ project = "file"
    /\ evaluated = SubSeq(ValidationOrder, 1, 4)


====
